---- MODULE Spec2Model ----
(***************************************************************************)
(* Model of the crawl engine of src/aldi/resource.py: GrocerySearchAPI     *)
(* (crawl_store, _crawl_results, _get and the helpers they call) together   *)
(* with the facet flattening and the list perturbation of                  *)
(* src/aldi/utilities.py.  The upstream HTTP API is the environment: every  *)
(* GET may answer with any status, any reported total and any set of SKUs.  *)
(***************************************************************************)
EXTENDS Integers, Sequences, FiniteSets, TLC

VARIABLES
    maxPageItems,     \* GrocerySearchAPI.max_page_items
    itemsPerPage,     \* GrocerySearchAPI.items_per_page
    pc,               \* position of crawl_store: "probe", "facets", "filter", "page",
                      \* "invdone", "done", "returned" (early return), "raised"
    nProducts,        \* n_products of crawl_store (None before the probe answers)
    mode,             \* branch of crawl_store taken: "none", "direct", "dual", "facet"
    skusSeen,         \* skus_seen of crawl_store
    delivered,        \* union of the skus of the pages crawl_store has yielded
    filters,          \* all_possible_filters after ranking and perturbation
    idx,              \* 1-based position of the facet loop in filters
    filtersExhausted, \* filters_exhausted of crawl_store
    phase,            \* which _crawl_results call of the branch runs: "first", "second", "single"
    sortBy,           \* sort_by of the running _crawl_results call
    params,           \* params of the running _crawl_results call
    paramsThisPage,   \* params_this_page of the request in flight
    currentIndex,     \* current_index of the running _crawl_results call
    endIndex,         \* end_index of the running _crawl_results call
    drifted,          \* whether the running _crawl_results call has taken its drift branch
    raised,           \* exception that left crawl_store or _get ("" if none)
    getPc,            \* position of the _get call followed on its own: "running", "returned", "raised"
    tries,            \* GETs issued so far by that _get call
    c,                \* failure counter c of its backoff sequence
    lastStatus,       \* status code of the last response to it (0: none yet)
    timedOut,         \* whether max_time had elapsed when it last failed
    earlierFailures,  \* retried failures of the _get call before the one followed (0: none before)
    flattenCall,      \* a flatten_facet call followed on its own: its argument and its return value
    perturbCall,      \* a perturb call followed on its own: its arguments and locals
    urlCall,          \* a _build_url call followed on its own: its argument and locals
    backoffGen,       \* an exp_collision_avoidance generator followed on its own
    rankCall,         \* the flattening and ranking of crawl_store followed on its own
    catalog           \* size of the upstream's catalog when it serves a fixed one (None:
                      \* the upstream answers anything)

vars == <<maxPageItems, itemsPerPage, pc, nProducts, mode, skusSeen, delivered,
          filters, idx, filtersExhausted, phase, sortBy, params,
          paramsThisPage, currentIndex, endIndex, drifted, raised,
          getPc, tries, c, lastStatus, timedOut, earlierFailures, flattenCall,
          perturbCall, urlCall, backoffGen, rankCall, catalog>>

----------------------------------------------------------------------------
\* Bounds of the model

\* max_page_items ranges over 0..MaxPageItemsBound
MaxPageItemsBound == 1
\* items_per_page ranges over 1..MaxItemsPerPage
MaxItemsPerPage == 2
\* the SKUs the upstream can serve are 1..NumSkus
NumSkus == 2
\* the totalCount the upstream reports ranges over 0..MaxTotal
MaxTotal == 3

\* the facet value trees given to flatten_facet are at most MaxDepth levels
\* below their root
MaxDepth == 2
\* the lists given to perturb have at most MaxLen elements, drawn from 1..MaxLen
MaxLen == 3
\* the radius given to perturb ranges over 0..MaxRadius
MaxRadius == 2
\* the parameter maps given to _build_url have at most MaxParams keys
MaxParams == 3
\* an exp_collision_avoidance generator is followed up to its MaxYields-th value
MaxYields == 7
\* against a fixed catalog max_page_items ranges over 0..MaxCatalogPageItems
MaxCatalogPageItems == 3

Skus == 1..NumSkus
Totals == 0..MaxTotal

\* Status codes the upstream answers with: 200, the retryable ones, the
\* listed fatal ones and two unlisted ones.
Statuses == {200, 429, 403, 500, 599, 404, 410, 302, 600}

----------------------------------------------------------------------------
\* Program constants

None == -1

max_tries == 15

Relevance == "relevance"
AToZ == "name_asc"
ZToA == "name_desc"
PriceLowToHigh == "price_asc"
PriceHighToLow == "price_desc"

SortBy == {Relevance, AToZ, ZToA, PriceLowToHigh, PriceHighToLow}

\* SORTBY_DUALS mapping the four sorts round in a cycle
SORTBY_DUALS_Cycle == [s \in {AToZ, ZToA, PriceLowToHigh, PriceHighToLow} |->
                    CASE s = AToZ -> ZToA
                      [] s = ZToA -> PriceLowToHigh
                      [] s = PriceLowToHigh -> PriceHighToLow
                      [] s = PriceHighToLow -> AToZ]

SORTBY_DUALS == [s \in {AToZ, ZToA, PriceLowToHigh, PriceHighToLow} |->
                    CASE s = AToZ -> ZToA
                      [] s = ZToA -> AToZ
                      [] s = PriceLowToHigh -> PriceHighToLow
                      [] s = PriceHighToLow -> PriceLowToHigh]

\* population of the weighted draw of the non-dual branch (all weights > 0)
WeightedSorts == {Relevance, PriceLowToHigh, PriceHighToLow, AToZ, ZToA}

Min(a, b) == IF a <= b THEN a ELSE b
Max(a, b) == IF a >= b THEN a ELSE b

----------------------------------------------------------------------------
\* Facets: value trees as the upstream reports them, and their flattening

Leaf(k, n) == [key |-> k, docCount |-> n, children |-> <<>>]
Node(k, n, ch) == [key |-> k, docCount |-> n, children |-> ch]
Facet(name, vals) == [parameterName |-> name, values |-> vals]

\* The facet forests the upstream answers with: no facet at all, a
\* category with one sub-category, and a brand facet listing one value twice.
FacetForests ==
    { <<>>,
      << Facet("categoryTree", << Node("a", 2, << Leaf("b", 1) >>) >>) >>,
      << Facet("brandName", << Leaf("x", 0), Leaf("x", 0) >>) >> }

FacetFlat(k, v, n, ch) == [key |-> k, value |-> v, n_items |-> n, children |-> ch]

\* FacetFlat.id
Id(ff) == ff.key \o "=" \o ff.value

RECURSIVE flatten_facet_value(_)
RECURSIVE FlattenValues(_)
\* the loop "for child in children: ret += flatten_facet_value(child)"
FlattenValues(vals) ==
    IF vals = <<>> THEN <<>>
    ELSE flatten_facet_value(Head(vals)) \o FlattenValues(Tail(vals))

\* flatten_facet_value that puts a value after its descendants
flatten_facet_value_postorder(facet_value) ==
    FlattenValues(facet_value.children) \o <<facet_value>>

flatten_facet_value(facet_value) ==
    <<facet_value>> \o FlattenValues(facet_value.children)

flatten_facet(facet) ==
    LET all_values == FlattenValues(facet.values)
    IN  [i \in 1..Len(all_values) |->
            FacetFlat(facet.parameterName,
                      all_values[i].key,
                      all_values[i].docCount,
                      {all_values[i].children[j].key :
                          j \in 1..Len(all_values[i].children)})]

RECURSIVE FlattenForest(_)
\* itertools.chain.from_iterable([flatten_facet(facet) for facet in facets])
FlattenForest(facets) ==
    IF facets = <<>> THEN <<>>
    ELSE flatten_facet(Head(facets)) \o FlattenForest(Tail(facets))

----------------------------------------------------------------------------
\* Ranking and perturbation of the filter list

\* ranker with the penalty branch after its first return taken
ranker_penalised(ff) ==
    LET max_reachable == 2 * maxPageItems
    IN  IF ff.n_items >= max_reachable
        THEN ff.n_items - 2 * (ff.n_items - max_reachable)
        ELSE ff.n_items

\* ranker of crawl_store: returns before the penalty branch
ranker(ff) == ff.n_items

RECURSIVE InsertStable(_,_)
\* insert x after every element whose rank is <= its own (a stable insert)
InsertStable(sorted, x) ==
    IF sorted = <<>> THEN <<x>>
    ELSE IF ranker(Head(sorted)) <= ranker(x)
         THEN <<Head(sorted)>> \o InsertStable(Tail(sorted), x)
         ELSE <<x>> \o sorted

RECURSIVE SortedByRank(_)
\* sorted(ls, key=ranker): ascending and stable
SortedByRank(ls) ==
    IF ls = <<>> THEN <<>>
    ELSE InsertStable(SortedByRank(SubSeq(ls, 1, Len(ls) - 1)), ls[Len(ls)])

Reverse(ls) == [i \in 1..Len(ls) |-> ls[Len(ls) + 1 - i]]

\* all_possible_filters with the null facet appended, sorted(...)[::-1]
RankedFilters(facets, n_products) ==
    Reverse(SortedByRank(Append(FlattenForest(facets),
                                FacetFlat("", "", n_products, {}))))

\* Swap that writes position i only
SwapOverwrite(ls, i, j) == [ls EXCEPT ![i] = ls[j]]

\* "ls_local[i], ls_local[j] = ls_local[j], ls_local[i]", positions 1-based
Swap(ls, i, j) == [ls EXCEPT ![i] = ls[j], ![j] = ls[i]]


\* SwapRange that draws from the whole list
SwapRangeWholeList(n, i, radius) == 1..n

\* the positions random.randint(max(0, i - radius), min(n - 1, i + radius))
\* can return, positions 1-based
SwapRange(n, i, radius) == Max(1, i - radius)..Min(n, i + radius)

RECURSIVE PerturbFrom(_,_,_,_)
\* the lists perturb can return once its loop stands at position i (1-based);
\* random.random() < prob can succeed iff prob > 0 and can fail iff prob < 1
PerturbFrom(ls, i, radius, probPct) ==
    IF i > Len(ls) THEN {ls}
    ELSE LET swapped == IF probPct > 0
                        THEN {Swap(ls, i, j) : j \in SwapRange(Len(ls), i, radius)}
                        ELSE {}
             kept == IF probPct < 100 THEN {ls} ELSE {}
         IN  UNION {PerturbFrom(l2, i + 1, radius, probPct) : l2 \in swapped \cup kept}

\* perturb(ls, radius, prob), prob given in percent
perturb(ls, radius, probPct) == PerturbFrom(ls, 1, radius, probPct)

----------------------------------------------------------------------------
\* _get: classification of one response


\* Classify with every 4xx answer taken for a transient one
ClassifyAll4xxRetry(status_code) ==
    IF status_code = 200 THEN "ok"
    ELSE IF 400 <= status_code /\ status_code < 600 THEN "retry"
    ELSE "fatal"

\* "ok", "retry" (FailedButRetrying) or "fatal" (ScraperNeedsHumanIntervention)
Classify(status_code) ==
    IF status_code = 200 THEN "ok"
    ELSE IF status_code = 429 THEN "retry"
    ELSE IF 500 <= status_code /\ status_code < 600 THEN "retry"
    ELSE IF status_code \in {400, 401, 402, 404, 405, 406, 410} THEN "fatal"
    ELSE IF status_code = 403 THEN "retry"
    ELSE "fatal"


\* GivesUp that allows one attempt more
GivesUpLate(attempt, timeUp) == attempt > max_tries \/ timeUp

\* backoff.on_exception(max_tries=15, max_time=4h): after a retryable failure
\* of attempt number attempt, give up or not
GivesUp(attempt, timeUp) == attempt = max_tries \/ timeUp

FailedButRetrying == "FailedButRetrying"
ScraperNeedsHumanIntervention == "ScraperNeedsHumanIntervention"

RECURSIVE RunGet(_,_)
\* one decorated _get call against the responses run, from attempt number
\* attempt on: "returned", the exception that leaves it, or "pending" when
\* the responses are used up before it ends
RunGet(run, attempt) ==
    IF run = <<>> THEN "pending"
    ELSE LET cls == Classify(Head(run).status)
         IN  IF cls = "ok" THEN "returned"
             ELSE IF cls = "fatal" THEN ScraperNeedsHumanIntervention
             ELSE IF GivesUp(attempt, Head(run).timeUp) THEN FailedButRetrying
             ELSE RunGet(Tail(run), attempt + 1)

\* response sequences: k retryable answers within the time budget, then any answer
Responses == [status : Statuses, timeUp : BOOLEAN]
Runs ==
    {[i \in 1..(k + 1) |-> IF i <= k THEN [status |-> s, timeUp |-> FALSE] ELSE r] :
        k \in 0..max_tries, s \in {x \in Statuses : Classify(x) = "retry"}, r \in Responses}

\* every way a _get call can end
GetOutcomes == {RunGet(run, 1) : run \in Runs} \ {"pending"}

\* the checks of the callers of _get on a returned response: content type,
\* json.loads, and (facets only) model_validate; "" when all pass
CheckBody(is_json_type, parses, validates) ==
    IF ~is_json_type THEN ScraperNeedsHumanIntervention
    ELSE IF ~parses THEN ScraperNeedsHumanIntervention
    ELSE IF ~validates THEN ScraperNeedsHumanIntervention
    ELSE ""


\* Propagate with a handler around the page request that ends the
\* _crawl_results call, so that crawl_store goes on with what comes next
PropagateCaught(at) == IF at = "page" THEN "invdone" ELSE "raised"

\* where crawl_store stands after an exception is raised at position at:
\* nothing between _get and the caller of crawl_store catches it
Propagate(at) == "raised"

----------------------------------------------------------------------------
\* _crawl_results: request parameters and loop condition

NoParams == <<>>

\* dict.update
Update(p, additional) == additional @@ p

\* BaseParams that sends the sort whatever it is
BaseParamsAlwaysSort(sort_by, additional_parameters) ==
    LET base == ("currency" :> "USD") @@ ("testVariant" :> "A")
                @@ ("servicePoint" :> "RRR-SSS") @@ ("q" :> "")
    IN  Update(Update(base, "sort" :> sort_by), additional_parameters)

\* params of _crawl_results
BaseParams(sort_by, additional_parameters) ==
    LET base == ("currency" :> "USD") @@ ("testVariant" :> "A")
                @@ ("servicePoint" :> "RRR-SSS") @@ ("q" :> "")
        sorted == IF sort_by # Relevance
                  THEN Update(base, "sort" :> sort_by)
                  ELSE base
    IN  Update(sorted, additional_parameters)


\* OffsetOf without the clamp
OffsetUnclamped(current_index, max_base_index) == current_index

\* the offset sent: min(current_index, max_page_items)
OffsetOf(current_index, max_base_index) == Min(current_index, max_base_index)

\* params_this_page
PageParams(p, current_index, page_size, max_base_index) ==
    Update(Update(p, "limit" :> ToString(page_size)),
           "offset" :> ToString(OffsetOf(current_index, max_base_index)))

\* is_done_paging that goes on while current_index is not above end_index
is_done_paging_past_end_strict(current_index, end_index, page_size, max_base_index) ==
    LET unknown_end == (end_index = None)
        past_end == ~unknown_end /\ current_index > end_index
        past_reachable == current_index > max_base_index + page_size
    IN  past_reachable \/ past_end

is_done_paging(current_index, end_index, page_size, max_base_index) ==
    LET unknown_end == (end_index = None)
        past_end == ~unknown_end /\ current_index >= end_index
        past_reachable == current_index > max_base_index + page_size
    IN  past_reachable \/ past_end

\* "if page_count_reported != end_index" after the yield
Drifted(page_count_reported, end_index) == page_count_reported # end_index


\* IndexAfterDrift that restarts the call from the first page
IndexAfterDriftRestart(current_index) == 0

\* index from which _crawl_results goes on after a drift
IndexAfterDrift(current_index) == current_index

----------------------------------------------------------------------------
\* crawl_store: decisions


\* SelectMode with both comparisons strict
SelectModeStrict(n_products, max_page_items) ==
    IF n_products < 2 * max_page_items
    THEN IF n_products < max_page_items THEN "direct" ELSE "dual"
    ELSE "facet"

SelectMode(n_products, max_page_items) ==
    IF n_products <= 2 * max_page_items
    THEN IF n_products <= max_page_items THEN "direct" ELSE "dual"
    ELSE "facet"


\* TargetReached with a strict comparison
TargetReachedStrict(seen, n_products) == Cardinality(seen) > n_products

\* "if len(skus_seen) >= n_products: return"
TargetReached(seen, n_products) == Cardinality(seen) >= n_products

\* whether crawl_store hands the page it just recorded to its caller
YieldsPage(reached) == ~reached

\* "if flter.id() not in filters_exhausted"
IsExhausted(flter, exhausted) == Id(flter) \in exhausted

\* MarkExhausted that records the filter alone
MarkExhaustedOwnIdOnly(exhausted, flter) == exhausted \cup {Id(flter)}

\* filters_exhausted.add(flter.id()); filters_exhausted.update(flter.children)
MarkExhausted(exhausted, flter) == exhausted \cup {Id(flter)} \cup flter.children

\* dual_mode_necessary with a strict comparison
dual_mode_necessary_strict(flter, max_page_items) == flter.n_items > max_page_items

dual_mode_necessary(flter, max_page_items) == flter.n_items >= max_page_items



----------------------------------------------------------------------------
\* crawl_store as a state machine; each step is what happens between two
\* requests, a _get call with its retries being one step

cfgVars == <<maxPageItems, itemsPerPage, catalog>>
pagVars == <<phase, sortBy, params, paramsThisPage, currentIndex, endIndex, drifted>>
outVars == <<skusSeen, delivered>>
facetVars == <<filters, idx, filtersExhausted>>
crawlVars == <<pc, nProducts, mode, outVars, facetVars, pagVars>>
getVars == <<getPc, tries, c, lastStatus, timedOut, earlierFailures>>

fnVars == <<flattenCall, perturbCall, urlCall, backoffGen, rankCall>>

\* no call of a helper is followed on its own
Idle == <<>>

\* crawl_store is about to send its probe, and _get its first GET
CrawlStart ==
    /\ pc = "probe"
    /\ nProducts = None
    /\ mode = "none"
    /\ skusSeen = {}
    /\ delivered = {}
    /\ filters = <<>>
    /\ idx = 0
    /\ filtersExhausted = {}
    /\ phase = "none"
    /\ sortBy = Relevance
    /\ params = NoParams
    /\ paramsThisPage = NoParams
    /\ currentIndex = 0
    /\ endIndex = None
    /\ drifted = FALSE
    /\ raised = ""
    /\ getPc = "running"
    /\ tries = 0
    /\ c = 0
    /\ lastStatus = 0
    /\ timedOut = FALSE
    /\ earlierFailures = 0

Init ==
    /\ maxPageItems \in 0..MaxPageItemsBound
    /\ itemsPerPage \in 1..MaxItemsPerPage
    /\ CrawlStart
    /\ flattenCall = Idle
    /\ perturbCall = Idle
    /\ urlCall = Idle
    /\ backoffGen = Idle
    /\ rankCall = Idle
    /\ catalog = None

\* a request is in flight
Fetching == pc \in {"probe", "facets", "page"}

\* the request in flight gets a usable answer
Answered == "returned" \in GetOutcomes /\ CheckBody(TRUE, TRUE, TRUE) = ""

\* head of the while loop of _crawl_results with the given locals
LoopHead(p, current_index, end_index) ==
    IF is_done_paging(current_index, end_index, itemsPerPage, maxPageItems)
    THEN /\ pc' = "invdone"
         /\ UNCHANGED paramsThisPage
    ELSE /\ pc' = "page"
         /\ paramsThisPage' = PageParams(p, current_index, itemsPerPage, maxPageItems)

\* a call of _crawl_results up to its first request
StartInvocation(sort_by, additional_parameters, ph) ==
    /\ phase' = ph
    /\ sortBy' = sort_by
    /\ params' = BaseParams(sort_by, additional_parameters)
    /\ currentIndex' = 0
    /\ endIndex' = None
    /\ drifted' = FALSE
    /\ LoopHead(BaseParams(sort_by, additional_parameters), 0, None)

\* additional_parameters of the _crawl_results calls of the running branch
Additional ==
    IF mode = "facet"
    THEN filters[idx].key :> filters[idx].value
    ELSE NoParams

\* the request in flight ends in an exception: _get raises, or the answer
\* fails a check of the caller
FetchRaises(exc) ==
    /\ Fetching
    /\ \/ exc \in GetOutcomes \ {"returned"}
       \/ /\ "returned" \in GetOutcomes
          /\ \E is_json_type, parses, validates \in BOOLEAN :
                /\ ~validates => pc = "facets"
                /\ CheckBody(is_json_type, parses, validates) = exc
    /\ raised' = exc
    /\ pc' = Propagate(pc)
    /\ UNCHANGED <<cfgVars, nProducts, mode, outVars, facetVars, pagVars, getVars, fnVars>>

\* get_total_number_of_products answers n and crawl_store picks its branch
ProbeOk(n) ==
    /\ pc = "probe"
    /\ Answered
    /\ nProducts' = n
    /\ mode' = SelectMode(n, maxPageItems)
    /\ CASE SelectMode(n, maxPageItems) = "direct" ->
                StartInvocation(Relevance, NoParams, "single")
         [] SelectMode(n, maxPageItems) = "dual" ->
                \E sort_by \in DOMAIN SORTBY_DUALS :
                    StartInvocation(sort_by, NoParams, "first")
         [] OTHER ->
                /\ pc' = "facets"
                /\ UNCHANGED pagVars
    /\ UNCHANGED <<cfgVars, outVars, facetVars, raised, getVars, fnVars>>

\* _get_all_facets answers; the filter list is flattened, ranked and perturbed
FacetsOk(facets) ==
    /\ pc = "facets"
    /\ Answered
    /\ \E ls \in perturb(RankedFilters(facets, nProducts), 2, 30) : filters' = ls
    /\ idx' = 1
    /\ skusSeen' = {}
    /\ filtersExhausted' = {}
    /\ pc' = "filter"
    /\ UNCHANGED <<cfgVars, nProducts, mode, delivered, pagVars, raised, getVars, fnVars>>

\* facet loop: the filter at idx is already exhausted
FilterSkip ==
    /\ pc = "filter"
    /\ idx <= Len(filters)
    /\ IsExhausted(filters[idx], filtersExhausted)
    /\ filtersExhausted' = MarkExhausted(filtersExhausted, filters[idx])
    /\ idx' = idx + 1
    /\ UNCHANGED <<cfgVars, pc, nProducts, mode, outVars, filters, pagVars, raised, getVars, fnVars>>

\* facet loop: the filter at idx is crawled
FilterStart ==
    /\ pc = "filter"
    /\ idx <= Len(filters)
    /\ ~IsExhausted(filters[idx], filtersExhausted)
    /\ IF dual_mode_necessary(filters[idx], maxPageItems)
       THEN \E sort_by \in DOMAIN SORTBY_DUALS :
                StartInvocation(sort_by, Additional, "first")
       ELSE \E sort_by \in WeightedSorts :
                StartInvocation(sort_by, Additional, "single")
    /\ UNCHANGED <<cfgVars, nProducts, mode, outVars, facetVars, raised, getVars, fnVars>>

\* facet loop: the list is used up
FilterLoopEnd ==
    /\ pc = "filter"
    /\ idx > Len(filters)
    /\ pc' = "done"
    /\ UNCHANGED <<cfgVars, nProducts, mode, outVars, facetVars, pagVars, raised, getVars, fnVars>>

\* a page answers: _crawl_results records the total and yields the page,
\* crawl_store records it and returns or yields it, _crawl_results goes on
PageOk(page_count_reported, skus) ==
    /\ pc = "page"
    /\ Answered
    /\ LET end1 == IF endIndex = None THEN page_count_reported ELSE endIndex
           seen1 == IF mode = "direct" THEN skusSeen ELSE skusSeen \cup skus
           reached == mode # "direct" /\ TargetReached(seen1, nProducts)
           drift == Drifted(page_count_reported, end1)
           end2 == IF drift THEN None ELSE end1
           index2 == IF drift THEN IndexAfterDrift(currentIndex)
                              ELSE currentIndex + itemsPerPage
       IN  /\ skusSeen' = seen1
           /\ delivered' = IF YieldsPage(reached) THEN delivered \cup skus ELSE delivered
           /\ IF reached
              THEN /\ pc' = "returned"
                   /\ endIndex' = end1
                   /\ UNCHANGED <<currentIndex, paramsThisPage, drifted>>
              ELSE /\ endIndex' = end2
                   /\ currentIndex' = index2
                   /\ drifted' = (drifted \/ drift)
                   /\ LoopHead(params, index2, end2)
    /\ UNCHANGED <<cfgVars, nProducts, mode, facetVars, phase, sortBy, params, raised, getVars, fnVars>>

\* a _crawl_results call is used up: crawl_store goes on after its for loop
InvocationDone ==
    /\ pc = "invdone"
    /\ CASE phase = "first" ->
                /\ StartInvocation(SORTBY_DUALS[sortBy], Additional, "second")
                /\ UNCHANGED facetVars
         [] phase # "first" /\ mode = "facet" ->
                /\ filtersExhausted' = MarkExhausted(filtersExhausted, filters[idx])
                /\ idx' = idx + 1
                /\ pc' = "filter"
                /\ UNCHANGED <<filters, pagVars>>
         [] OTHER ->
                /\ pc' = "done"
                /\ UNCHANGED <<facetVars, pagVars>>
    /\ UNCHANGED <<cfgVars, nProducts, mode, outVars, raised, getVars, fnVars>>

Next ==
    \/ \E exc \in {FailedButRetrying, ScraperNeedsHumanIntervention} : FetchRaises(exc)
    \/ \E n \in Totals : ProbeOk(n)
    \/ \E facets \in FacetForests : FacetsOk(facets)
    \/ FilterSkip
    \/ FilterStart
    \/ FilterLoopEnd
    \/ \E t \in Totals, skus \in SUBSET Skus : PageOk(t, skus)
    \/ InvocationDone

Spec == Init /\ [][Next]_vars


----------------------------------------------------------------------------
\* One _get call followed attempt by attempt, under backoff.on_exception

\* an attempt answers a retryable status and backoff schedules the next one
\* after drawing the next value of exp_collision_avoidance
GetRetry(status_code, timeUp) ==
    /\ getPc = "running"
    /\ Classify(status_code) = "retry"
    /\ ~GivesUp(tries + 1, timeUp)
    /\ tries' = tries + 1
    /\ c' = c + 1
    /\ lastStatus' = status_code
    /\ timedOut' = timeUp
    /\ UNCHANGED <<cfgVars, crawlVars, fnVars, raised, getPc, earlierFailures>>

\* an attempt answers a retryable status and backoff gives up
GetGiveUp(status_code, timeUp) ==
    /\ getPc = "running"
    /\ Classify(status_code) = "retry"
    /\ GivesUp(tries + 1, timeUp)
    /\ tries' = tries + 1
    /\ lastStatus' = status_code
    /\ timedOut' = timeUp
    /\ getPc' = "raised"
    /\ raised' = FailedButRetrying
    /\ UNCHANGED <<cfgVars, crawlVars, fnVars, c, earlierFailures>>

\* an attempt answers a fatal status
GetFatal(status_code) ==
    /\ getPc = "running"
    /\ Classify(status_code) = "fatal"
    /\ tries' = tries + 1
    /\ lastStatus' = status_code
    /\ getPc' = "raised"
    /\ raised' = ScraperNeedsHumanIntervention
    /\ UNCHANGED <<cfgVars, crawlVars, fnVars, c, timedOut, earlierFailures>>

\* an attempt answers 200 and _get returns the response
GetReturn(status_code) ==
    /\ getPc = "running"
    /\ Classify(status_code) = "ok"
    /\ tries' = tries + 1
    /\ lastStatus' = status_code
    /\ getPc' = "returned"
    /\ UNCHANGED <<cfgVars, crawlVars, fnVars, raised, c, timedOut, earlierFailures>>


\* NewSequenceCounter of a wait generator shared by all calls
NewSequenceCounterShared(previous) == previous

\* failure counter with which the wait generator of a _get call starts,
\* previous being where the one of the call before stood: the decorator
\* makes a generator per call, and the generator sets c = 0
NewSequenceCounter(previous) == 0

\* the caller goes on to its next _get call: a new backoff sequence
GetCall ==
    /\ getPc = "returned"
    /\ getPc' = "running"
    /\ tries' = 0
    /\ c' = NewSequenceCounter(c)
    /\ earlierFailures' = c
    /\ lastStatus' = 0
    /\ timedOut' = FALSE
    /\ UNCHANGED <<cfgVars, crawlVars, fnVars, raised>>

NextGet ==
    \/ \E s \in Statuses, timeUp \in BOOLEAN : GetRetry(s, timeUp)
    \/ \E s \in Statuses, timeUp \in BOOLEAN : GetGiveUp(s, timeUp)
    \/ \E s \in Statuses : GetFatal(s)
    \/ \E s \in Statuses : GetReturn(s)
    \/ GetCall

SpecGet == Init /\ [][NextGet]_vars


FairSpec == Spec /\ WF_vars(Next)

----------------------------------------------------------------------------
\* flatten_facet applied to one facet

RECURSIVE ValueTrees(_,_)
\* the value trees of at most d levels below a root that carries code: the
\* j-th child of the value with code m carries 3*m + j, so that the code of
\* a value tells its place in the tree; a value's key is its code in
\* decimal and its docCount is its code
ValueTrees(code, d) ==
    LET kids == IF d = 0 THEN {<<>>}
                ELSE {<<>>}
                     \cup {<<t>> : t \in ValueTrees(3 * code + 1, d - 1)}
                     \cup {<<t, u>> : t \in ValueTrees(3 * code + 1, d - 1),
                                      u \in ValueTrees(3 * code + 2, d - 1)}
    IN  {Node(ToString(code), code, ch) : ch \in kids}

\* the facets flatten_facet is given: none, one or two value trees
FacetInputs ==
    {Facet("categoryTree", vals) :
        vals \in {<<>>}
                 \cup {<<t>> : t \in ValueTrees(1, MaxDepth)}
                 \cup {<<t, u>> : t \in ValueTrees(1, MaxDepth),
                                  u \in ValueTrees(2, MaxDepth)}}

InitFlatten ==
    /\ maxPageItems = 0
    /\ itemsPerPage = 1
    /\ CrawlStart
    /\ flattenCall \in {[facet |-> f, returned |-> FALSE, ret |-> <<>>] : f \in FacetInputs}
    /\ perturbCall = Idle
    /\ urlCall = Idle
    /\ backoffGen = Idle
    /\ rankCall = Idle
    /\ catalog = None

\* flatten_facet runs and returns
FlattenFacet ==
    /\ flattenCall # Idle
    /\ ~flattenCall.returned
    /\ flattenCall' = [flattenCall EXCEPT !.returned = TRUE,
                                          !.ret = flatten_facet(flattenCall.facet)]
    /\ UNCHANGED <<cfgVars, crawlVars, raised, getVars, rankCall, perturbCall, urlCall, backoffGen>>

NextFlatten == FlattenFacet

SpecFlatten == InitFlatten /\ [][NextFlatten]_vars

----------------------------------------------------------------------------
\* perturb followed iteration by iteration

\* the probabilities given to perturb, in percent: never, the one
\* crawl_store passes, always
Probabilities == {0, 30, 100}

Lists == UNION {[1..n -> 1..MaxLen] : n \in 0..MaxLen}

InitPerturb ==
    /\ maxPageItems = 0
    /\ itemsPerPage = 1
    /\ CrawlStart
    /\ flattenCall = Idle
    /\ perturbCall \in {[ls |-> l, radius |-> r, probPct |-> p, ls_local |-> l,
                          i |-> 0, swap |-> <<>>, returned |-> FALSE] :
                            l \in Lists, r \in 0..MaxRadius, p \in Probabilities}
    /\ urlCall = Idle
    /\ backoffGen = Idle
    /\ rankCall = Idle
    /\ catalog = None

\* the loop of perturb stands at index i (0-based)
PerturbLooping ==
    /\ perturbCall # Idle
    /\ ~perturbCall.returned
    /\ perturbCall.i < Len(perturbCall.ls)

\* an iteration with random.random() < prob: j is drawn and the elements at
\* i and j change places
PerturbSwap(j) ==
    /\ PerturbLooping
    /\ perturbCall.probPct > 0
    /\ j + 1 \in SwapRange(Len(perturbCall.ls), perturbCall.i + 1, perturbCall.radius)
    /\ perturbCall' = [perturbCall EXCEPT
            !.ls_local = Swap(perturbCall.ls_local, perturbCall.i + 1, j + 1),
            !.swap = <<perturbCall.i, j>>,
            !.i = perturbCall.i + 1]
    /\ UNCHANGED <<cfgVars, crawlVars, raised, getVars, rankCall, flattenCall, urlCall, backoffGen>>

\* an iteration with random.random() >= prob
PerturbKeep ==
    /\ PerturbLooping
    /\ perturbCall.probPct < 100
    /\ perturbCall' = [perturbCall EXCEPT !.i = perturbCall.i + 1]
    /\ UNCHANGED <<cfgVars, crawlVars, raised, getVars, rankCall, flattenCall, urlCall, backoffGen>>

\* the loop is used up: return ls_local
PerturbReturn ==
    /\ perturbCall # Idle
    /\ ~perturbCall.returned
    /\ perturbCall.i >= Len(perturbCall.ls)
    /\ perturbCall' = [perturbCall EXCEPT !.returned = TRUE]
    /\ UNCHANGED <<cfgVars, crawlVars, raised, getVars, rankCall, flattenCall, urlCall, backoffGen>>

NextPerturb ==
    \/ \E j \in 0..(MaxLen - 1) : PerturbSwap(j)
    \/ PerturbKeep
    \/ PerturbReturn

SpecPerturb == InitPerturb /\ [][NextPerturb]_vars

----------------------------------------------------------------------------
\* _build_url followed on its own; a string under construction is the
\* sequence of its pieces

\* params_order with sort and usaSnapEligible in each other's place
params_order_sort_early ==
    <<"currency", "serviceType", "q", "limit", "offset", "brandName",
      "categoryTree", "sort", "usaSnapEligible", "testVariant", "servicePoint">>

params_order ==
    <<"currency", "serviceType", "q", "limit", "offset", "brandName",
      "categoryTree", "usaSnapEligible", "sort", "testVariant", "servicePoint">>

params_known == {params_order[i] : i \in DOMAIN params_order}

\* urllib.parse.quote on the strings of the model: the space is the one
\* character of theirs it escapes
quote(str) == IF str = "a b" THEN "a%20b" ELSE str

\* the keys a parameter map can have: the known ones, two others and the
\* empty key of the null facet
ParamKeys == params_known \cup {"zzz", "a b", ""}
ParamValues == {"1", "a b"}

ParamMaps ==
    UNION {[used -> ParamValues] :
            used \in {u \in SUBSET ParamKeys : Cardinality(u) <= MaxParams}}

\* "for param_key in params_order: if param_key in params_used_known: append"
KnownOrdered(parameters) ==
    LET present == SelectSeq(params_order, LAMBDA k : k \in DOMAIN parameters)
    IN  [i \in 1..Len(present) |-> <<present[i], parameters[present[i]]>>]

\* the orders in which "for param_key in params_used_unknown" can go
\* through the set
UnknownOrders(parameters) ==
    LET unknown == DOMAIN parameters \ params_known
        n == Cardinality(unknown)
    IN  {o \in [1..n -> unknown] : \A i, j \in 1..n : o[i] = o[j] => i = j}

RECURSIVE QueryPieces(_)
\* the loop that appends key, "=", value, "&" for every pair with a key
QueryPieces(params_ordered) ==
    IF params_ordered = <<>> THEN <<>>
    ELSE LET key == Head(params_ordered)[1]
             value == Head(params_ordered)[2]
         IN  (IF key # ""
              THEN <<quote(key), "=", quote(value), "&">>
              ELSE <<>>) \o QueryPieces(Tail(params_ordered))

RECURSIVE strip(_,_)
\* str.strip(chars) on a string whose pieces are either chars or free of it
strip(pieces, chars) ==
    IF pieces = <<>> THEN <<>>
    ELSE IF Head(pieces) = chars THEN strip(Tail(pieces), chars)
    ELSE IF pieces[Len(pieces)] = chars
         THEN strip(SubSeq(pieces, 1, Len(pieces) - 1), chars)
    ELSE pieces

\* query_str of _build_url
QueryStr(params_ordered) ==
    strip(IF Len(params_ordered) > 0
          THEN <<"?">> \o QueryPieces(params_ordered)
          ELSE <<>>,
          "&")

InitUrl ==
    /\ maxPageItems = 0
    /\ itemsPerPage = 1
    /\ CrawlStart
    /\ flattenCall = Idle
    /\ perturbCall = Idle
    /\ urlCall \in {[parameters |-> m, at |-> "order", params_ordered |-> <<>>,
                      ret |-> <<>>] : m \in ParamMaps}
    /\ backoffGen = Idle
    /\ rankCall = Idle
    /\ catalog = None

\* params_ordered is filled: the known keys, then the others
UrlOrder(unknown_order) ==
    /\ urlCall # Idle
    /\ urlCall.at = "order"
    /\ unknown_order \in UnknownOrders(urlCall.parameters)
    /\ urlCall' = [urlCall EXCEPT
            !.at = "query",
            !.params_ordered =
                KnownOrdered(urlCall.parameters)
                \o [i \in 1..Len(unknown_order) |->
                        <<unknown_order[i], urlCall.parameters[unknown_order[i]]>>]]
    /\ UNCHANGED <<cfgVars, crawlVars, raised, getVars, rankCall, flattenCall, perturbCall, backoffGen>>

\* the query string is built and the URL is returned
UrlReturn ==
    /\ urlCall # Idle
    /\ urlCall.at = "query"
    /\ urlCall' = [urlCall EXCEPT
            !.at = "returned",
            !.ret = <<"https://", "api_hostname", "api_path">>
                        \o QueryStr(urlCall.params_ordered)]
    /\ UNCHANGED <<cfgVars, crawlVars, raised, getVars, rankCall, flattenCall, perturbCall, backoffGen>>

NextUrl ==
    \/ \E o \in UNION {[1..n -> ParamKeys \ params_known] :
                        n \in 0..Cardinality(ParamKeys \ params_known)} : UrlOrder(o)
    \/ UrlReturn

SpecUrl == InitUrl /\ [][NextUrl]_vars

----------------------------------------------------------------------------
\* exp_collision_avoidance followed from one yield to the next; waits are
\* in microseconds, so that k * step_ms / 1000 seconds is k * step_ms * 1000

\* step_ms = 1.5, in microseconds
StepMicros == 1500

\* the values of step_ms the generator is made with
Steps == {StepMicros, 1000}


\* KRange with twice the width
KRangeDoubled(counter) == 0..(2 ^ (counter + 1))

\* the values random.randint(0, 2**c) can return
KRange(counter) == 0..(2 ^ counter)

InitBackoff ==
    /\ maxPageItems = 0
    /\ itemsPerPage = 1
    /\ CrawlStart
    /\ flattenCall = Idle
    /\ perturbCall = Idle
    /\ urlCall = Idle
    /\ backoffGen \in {[step |-> st, yields |-> 0, c |-> None, k |-> None, wait |-> None] :
                            st \in Steps}
    /\ rankCall = Idle
    /\ catalog = None

\* the first next(): runs up to "yield 0"
BackoffFirst ==
    /\ backoffGen # Idle
    /\ backoffGen.yields = 0
    /\ backoffGen' = [backoffGen EXCEPT !.yields = 1, !.wait = 0]
    /\ UNCHANGED <<cfgVars, crawlVars, raised, getVars, rankCall, flattenCall, perturbCall, urlCall>>

\* a later next(): "c = 0" after the first yield and "c += 1" after the
\* others, then k is drawn and k * step_ms / 1000 is yielded
BackoffNext(drawn) ==
    /\ backoffGen # Idle
    /\ backoffGen.yields >= 1
    /\ backoffGen.yields < MaxYields
    /\ LET counter == IF backoffGen.yields = 1 THEN 0 ELSE backoffGen.c + 1
       IN  /\ drawn \in KRange(counter)
           /\ backoffGen' = [backoffGen EXCEPT
                    !.c = counter,
                    !.k = drawn,
                    !.wait = drawn * backoffGen.step,
                    !.yields = backoffGen.yields + 1]
    /\ UNCHANGED <<cfgVars, crawlVars, raised, getVars, rankCall, flattenCall, perturbCall, urlCall>>

NextBackoff ==
    \/ BackoffFirst
    \/ \E drawn \in 0..(2 ^ MaxYields) : BackoffNext(drawn)

SpecBackoff == InitBackoff /\ [][NextBackoff]_vars

----------------------------------------------------------------------------
\* crawl_store against an upstream that serves a fixed catalog: the item at
\* catalog position p (0-based) has SKU p + 1, and every page request is
\* answered with the catalog's size as totalCount and the items at the
\* positions from offset up to offset + limit that lie below that size

\* int(str) of a limit or offset parameter as the upstream reads it
ParseInt(str) ==
    CHOOSE k \in 0..(MaxPageItemsBound + MaxCatalogPageItems + MaxItemsPerPage) :
        ToString(k) = str

\* response_data['data'] for a request at offset with the given limit
CatalogData(total, offset, limit) ==
    [i \in 1..Max(0, Min(limit, total - offset)) |-> [sku |-> offset + i]]


\* PageSkus that reads the first item only
PageSkusFirstOnly(data) == {data[i].sku : i \in DOMAIN data \cap {1}}

\* skus = {data['sku'] for data in response_data['data']}
PageSkus(data) == {data[i].sku : i \in DOMAIN data}

\* response_data['data'] of the answer to the request in flight
DataInFlight ==
    CatalogData(catalog, ParseInt(paramsThisPage["offset"]), ParseInt(paramsThisPage["limit"]))

InitCatalog ==
    /\ maxPageItems \in 0..MaxCatalogPageItems
    /\ itemsPerPage \in 1..MaxItemsPerPage
    /\ CrawlStart
    /\ flattenCall = Idle
    /\ perturbCall = Idle
    /\ urlCall = Idle
    /\ backoffGen = Idle
    /\ rankCall = Idle
    /\ catalog \in Totals

\* a page request is answered from the catalog
CatalogPage ==
    /\ pc = "page"
    /\ catalog # None
    /\ PageOk(catalog, PageSkus(DataInFlight))

NextCatalog ==
    \/ \E exc \in {FailedButRetrying, ScraperNeedsHumanIntervention} : FetchRaises(exc)
    \/ \E n \in Totals : ProbeOk(n)
    \/ \E facets \in FacetForests : FacetsOk(facets)
    \/ FilterSkip
    \/ FilterStart
    \/ FilterLoopEnd
    \/ CatalogPage
    \/ InvocationDone

SpecCatalog == InitCatalog /\ [][NextCatalog]_vars

----------------------------------------------------------------------------
\* the flattening and ranking of the facet branch of crawl_store, up to the
\* call of perturb

\* a facet value with any docCount and no child or one
RankValues ==
    {Node("a", n, ch) : n \in Totals, ch \in {<<>>} \cup {<<Leaf("b", m)>> : m \in Totals}}

\* the facets _get_all_facets answers with: none, a category facet of up
\* to two values, and that after a brand facet of one value
RankForests ==
    LET cats == {Facet("categoryTree", vals) :
                    vals \in {<<>>} \cup {<<v>> : v \in RankValues}
                             \cup {<<v, w>> : v \in RankValues, w \in RankValues}}
    IN  {<<>>} \cup {<<f>> : f \in cats}
               \cup {<<Facet("brandName", <<Leaf("x", n)>>), f>> : n \in Totals, f \in cats}

InitRank ==
    /\ maxPageItems \in 0..MaxPageItemsBound
    /\ itemsPerPage = 1
    /\ CrawlStart
    /\ flattenCall = Idle
    /\ perturbCall = Idle
    /\ urlCall = Idle
    /\ backoffGen = Idle
    /\ catalog = None
    /\ rankCall \in {[facets |-> f, n_products |-> n, returned |-> FALSE, ret |-> <<>>] :
                        f \in RankForests,
                        n \in {t \in Totals : SelectMode(t, maxPageItems) = "facet"}}

\* all_possible_filters is flattened, given the null facet and sorted
RankFilters ==
    /\ rankCall # Idle
    /\ ~rankCall.returned
    /\ rankCall' = [rankCall EXCEPT
            !.returned = TRUE,
            !.ret = RankedFilters(rankCall.facets, rankCall.n_products)]
    /\ UNCHANGED <<cfgVars, crawlVars, raised, getVars, flattenCall, perturbCall, urlCall,
                   backoffGen>>

NextRank == RankFilters

SpecRank == InitRank /\ [][NextRank]_vars

----------------------------------------------------------------------------
\* Properties

\* C1: crawl_store picks its branch from n_products and max_page_items alone:
\* direct iff n <= max, dual iff max < n <= 2*max, facet iff n > 2*max; the
\* branch never changes once taken, and the facets are requested and the
\* filter list is built in the facet branch only.
C1_ModeSelection ==
    /\ [](mode # "none" =>
            /\ nProducts # None
            /\ (mode = "direct") = (nProducts <= maxPageItems)
            /\ (mode = "dual") = (maxPageItems < nProducts /\ nProducts <= 2 * maxPageItems)
            /\ (mode = "facet") = (nProducts > 2 * maxPageItems))
    /\ []((pc \in {"facets", "filter"} \/ filters # <<>>) => mode = "facet")
    /\ [][mode # "none" => mode' = mode]_vars

C1_Witness == mode = "facet" /\ pc = "page" /\ filters # <<>> /\ nProducts = 2 * maxPageItems + 1

\* C2: in the dual and facet branches, once skus_seen holds at least
\* n_products SKUs crawl_store has returned, and from there it makes no
\* further step (no request, no further filter, no second sort).
C2_EarlyStop ==
    /\ [](mode \in {"dual", "facet"} /\ Cardinality(skusSeen) >= nProducts
            => pc = "returned")
    /\ [][pc = "returned" => UNCHANGED vars]_vars

C2_Witness ==
    /\ pc = "returned"
    /\ mode = "facet"
    /\ phase = "first"
    /\ idx < Len(filters)
    /\ Cardinality(skusSeen) >= nProducts

\* C3: when crawl_store has ended in the dual or facet branch, every SKU
\* of skus_seen is in some page it yielded.
C3_DeliveredCoversSeen ==
    (pc \in {"done", "returned"} /\ mode \in {"dual", "facet"}) => skusSeen \subseteq delivered

\* the statuses the specification calls retryable
IsRetryableStatus(s) == s = 429 \/ s = 403 \/ (500 <= s /\ s <= 599)

\* C4: a status other than 200, 429, 403 and 5xx ends the _get call at
\* once with ScraperNeedsHumanIntervention, whatever the number of retried
\* attempts before it, and no GET of that call follows.
C4_FatalNeverRetried ==
    /\ [](lastStatus # 0 /\ lastStatus # 200 /\ ~IsRetryableStatus(lastStatus)
            => getPc = "raised" /\ raised = ScraperNeedsHumanIntervention)
    /\ [][getPc = "raised" => UNCHANGED vars]_vars

C4_Witness ==
    /\ getPc = "raised"
    /\ lastStatus = 404
    /\ tries = 5
    /\ raised = ScraperNeedsHumanIntervention

\* C5: a _get call issues at most max_tries = 15 GETs; it returns only on a
\* 200, at the attempt that got it; a retryable status never raises the
\* fatal exception, and FailedButRetrying leaves the call only at attempt
\* 15 or when max_time had elapsed, so that every retryable answer before
\* that is followed by another attempt drawn further along the backoff
\* sequence.
C5_BoundedRetry ==
    /\ tries <= max_tries
    /\ c <= tries
    /\ getPc = "running" => (tries < max_tries /\ c = tries)
    /\ getPc = "returned" => (lastStatus = 200 /\ tries >= 1)
    /\ IsRetryableStatus(lastStatus) => raised # ScraperNeedsHumanIntervention
    /\ raised = FailedButRetrying =>
            /\ getPc = "raised"
            /\ IsRetryableStatus(lastStatus)
            /\ (tries = max_tries \/ timedOut)

C5_Witness ==
    /\ raised = FailedButRetrying
    /\ tries = max_tries
    /\ ~timedOut
    /\ c = max_tries - 1

\* C6: once a request of crawl_store has ended in an exception, crawl_store
\* stands at "raised" for good: the raising step and every later one leave
\* the yielded pages as they were, no request is in flight and no other
\* sort or filter is started.
C6_FatalAborts ==
    /\ [](raised # "" => pc = "raised")
    /\ [][raised' # "" => delivered' = delivered /\ pc' = "raised"]_vars
    /\ [][pc = "raised" => UNCHANGED vars]_vars

C6_Witness ==
    /\ pc = "raised"
    /\ raised = ScraperNeedsHumanIntervention
    /\ mode = "facet"
    /\ delivered # {}
    /\ idx < Len(filters)

\* a step of _crawl_results that takes the drift branch and goes on paging
DriftStep == pc = "page" /\ pc' = "page" /\ endIndex # None /\ endIndex' = None

\* C7: after a page whose totalCount differs from end_index, end_index is
\* unknown and the next request of the call is at offset 0.
C7_DriftRestartsAtZero ==
    [][DriftStep => paramsThisPage'["offset"] = "0"]_vars

\* C8: the offset of every page request is min(current_index,
\* max_page_items), hence at most max_page_items, and no page request is
\* made with current_index above max_page_items + items_per_page.
C8_Ceiling ==
    pc = "page" =>
        /\ currentIndex <= maxPageItems + itemsPerPage
        /\ \E k \in 0..maxPageItems :
                /\ paramsThisPage["offset"] = ToString(k)
                /\ k = (IF currentIndex <= maxPageItems THEN currentIndex ELSE maxPageItems)

C8_Witness ==
    /\ pc = "page"
    /\ currentIndex > maxPageItems
    /\ maxPageItems > 0
    /\ paramsThisPage["offset"] = ToString(maxPageItems)
    /\ drifted

\* number of page requests a _crawl_results call can still make, at most:
\* twice the index steps left below the ceiling, plus one while end_index
\* is known (a drift forgets it without advancing)
PagingMeasure ==
    2 * (maxPageItems + itemsPerPage + 1 - currentIndex)
        + (IF endIndex # None THEN 1 ELSE 0)

\* C9: whatever totals the upstream reports, a _crawl_results call whose
\* requests all return ends after finitely many of them: while a page
\* request is in flight PagingMeasure is positive, and every answered page
\* after which the call goes on paging makes it strictly smaller.
C9_PaginatorTerminates ==
    /\ [](pc = "page" => PagingMeasure > 0)
    /\ [][pc = "page" /\ pc' = "page" => PagingMeasure' < PagingMeasure]_vars

\* C9 as a liveness property of FairSpec: a page request in flight leads to
\* the end of the _crawl_results call
C9_EventuallyDone == [](pc = "page" => <>(pc # "page"))

C9_Witness == pc = "invdone" /\ drifted /\ endIndex # None /\ currentIndex < endIndex

\* the filter whose recorded child set contains f
IsParentOf(p, f) == p.key = f.key /\ f.value \in p.children

\* C10: in the facet branch no _crawl_results call is made for a filter
\* whose parent filter stands earlier in the ranked list.
C10_ChildNotCrawled ==
    (pc = "page" /\ mode = "facet") =>
        ~\E j \in 1..(idx - 1) : IsParentOf(filters[j], filters[idx])

\* C11: every filter the facet loop is done with (crawled or skipped) has
\* its own id and every key of its recorded child set in filters_exhausted,
\* the step that leaves a filter puts them there, and filters_exhausted
\* never loses an element.
C11_ExhaustionBookkeeping ==
    /\ [](\A j \in 1..(idx - 1) :
            /\ Id(filters[j]) \in filtersExhausted
            /\ filters[j].children \subseteq filtersExhausted)
    /\ [][idx >= 1 /\ idx' = idx + 1 =>
            ({Id(filters[idx])} \cup filters[idx].children) \subseteq filtersExhausted']_vars
    /\ [][filtersExhausted \subseteq filtersExhausted']_vars

C11_Witness ==
    /\ pc = "filter"
    /\ idx > Len(filters)
    /\ \E j \in 1..Len(filters) :
            /\ filters[j].children = {"b"}
            /\ Id(filters[j]) = "categoryTree=a"
    /\ {"categoryTree=a", "b", "categoryTree=b", "="} \subseteq filtersExhausted

\* the running _crawl_results call is scoped to the filter at idx, and
\* sends its sort unless that is relevance
ScopedToFilter ==
    /\ filters[idx].key \in DOMAIN params
    /\ params[filters[idx].key] = filters[idx].value
    /\ IF sortBy = Relevance THEN "sort" \notin DOMAIN params
                             ELSE "sort" \in DOMAIN params /\ params["sort"] = sortBy

\* C12: in the facet branch a _crawl_results call runs only for a filter
\* that is not exhausted and is scoped to it; a filter with n_items >=
\* max_page_items gets a call with a sort that has a dual and, when that
\* call is used up without the crawl having stopped, one more call with the
\* dual sort and then none; a filter with n_items < max_page_items gets one
\* call and then none.
C12_PerFilterStrategy ==
    /\ [](mode = "facet" /\ pc \in {"page", "invdone"} =>
            /\ ~IsExhausted(filters[idx], filtersExhausted)
            /\ ScopedToFilter
            /\ IF filters[idx].n_items >= maxPageItems
               THEN phase \in {"first", "second"} /\ sortBy \in DOMAIN SORTBY_DUALS
               ELSE phase = "single")
    /\ [][mode = "facet" /\ pc = "filter" /\ pc' \in {"page", "invdone"} =>
            /\ idx' = idx
            /\ phase' = IF filters[idx].n_items >= maxPageItems THEN "first" ELSE "single"]_vars
    /\ [][mode = "facet" /\ pc = "invdone" =>
            IF phase = "first"
            THEN /\ pc' \in {"page", "invdone"}
                 /\ phase' = "second"
                 /\ idx' = idx
                 /\ sortBy' = SORTBY_DUALS[sortBy]
            ELSE /\ pc' = "filter"
                 /\ idx' = idx + 1]_vars
    /\ [][mode = "facet" /\ pc = "page" /\ pc' \in {"page", "invdone"} =>
            idx' = idx /\ phase' = phase /\ sortBy' = sortBy /\ params' = params]_vars

C12_Witness ==
    /\ mode = "facet"
    /\ pc = "page"
    /\ phase = "second"
    /\ maxPageItems = 1
    /\ filters[idx].n_items = maxPageItems
    /\ filters[idx].key = "categoryTree"
    /\ params["categoryTree"] = "b"
    /\ params["sort"] = SORTBY_DUALS[PriceLowToHigh]

\* C13: in the dual branch the first _crawl_results call sorts by a key of
\* SORTBY_DUALS and sends it (never relevance); the second call starts only
\* when the first is used up with fewer than n_products SKUs seen, sorts by
\* SORTBY_DUALS of the first sort, and no third call follows; SORTBY_DUALS
\* maps the four name and price sorts to one another and is its own inverse.
C13_DualOrdering ==
    /\ [](/\ DOMAIN SORTBY_DUALS = {AToZ, ZToA, PriceLowToHigh, PriceHighToLow}
          /\ \A s \in DOMAIN SORTBY_DUALS :
                /\ SORTBY_DUALS[s] \in DOMAIN SORTBY_DUALS
                /\ SORTBY_DUALS[SORTBY_DUALS[s]] = s)
    /\ [](mode = "dual" =>
            /\ phase \in {"first", "second"}
            /\ sortBy \in DOMAIN SORTBY_DUALS
            /\ sortBy # Relevance
            /\ params["sort"] = sortBy
            /\ phase = "second" => Cardinality(skusSeen) < nProducts \/ pc = "returned")
    /\ [][mode = "dual" /\ phase = "first" /\ phase' # "first" =>
            /\ pc = "invdone"
            /\ Cardinality(skusSeen) < nProducts
            /\ phase' = "second"
            /\ sortBy' = SORTBY_DUALS[sortBy]
            /\ skusSeen' = skusSeen]_vars
    /\ [][mode = "dual" /\ phase = "second" => phase' = "second" /\ sortBy' = sortBy]_vars
    /\ [][mode = "dual" /\ pc = "invdone" /\ phase = "second" => pc' = "done"]_vars

C13_Witness ==
    /\ mode = "dual"
    /\ phase = "second"
    /\ pc = "page"
    /\ sortBy = PriceHighToLow
    /\ params["sort"] = PriceHighToLow
    /\ Cardinality(skusSeen) = nProducts - 1
    /\ delivered # {}

\* the keys _crawl_results sends when it is given no sort and no filter
PlainKeys == {"currency", "testVariant", "servicePoint", "q"}

\* C14: in the direct branch crawl_store makes one _crawl_results call and
\* no other: it sorts by relevance, its requests carry no sort and no
\* filter parameter (only the four fixed keys, limit and offset), no page
\* of it is withheld by an early return, and when it is used up crawl_store
\* is done.
C14_DirectShape ==
    /\ [](mode = "direct" =>
            /\ nProducts <= maxPageItems
            /\ phase = "single"
            /\ sortBy = Relevance
            /\ DOMAIN params = PlainKeys
            /\ pc \in {"page", "invdone", "done", "raised"}
            /\ pc = "page" => DOMAIN paramsThisPage = PlainKeys \cup {"limit", "offset"})
    /\ [][mode = "direct" =>
            /\ delivered \subseteq delivered'
            /\ phase' = phase /\ sortBy' = sortBy /\ params' = params
            /\ pc = "invdone" => pc' = "done"
            /\ pc = "done" => pc' = "done"]_vars

C14_Witness ==
    /\ mode = "direct"
    /\ pc = "done"
    /\ nProducts = maxPageItems
    /\ maxPageItems > 0
    /\ delivered = Skus
    /\ "sort" \notin DOMAIN params

RECURSIVE NodeCount(_)
\* number of values in the trees of the list vals
NodeCount(vals) ==
    IF vals = <<>> THEN 0
    ELSE 1 + NodeCount(Head(vals).children) + NodeCount(Tail(vals))

RECURSIVE NodeCodes(_)
\* the codes (docCounts) of the values in the trees of the list vals
NodeCodes(vals) ==
    IF vals = <<>> THEN {}
    ELSE {Head(vals).docCount} \cup NodeCodes(Head(vals).children) \cup NodeCodes(Tail(vals))

RECURSIVE Path(_)
\* the place of the value with the given code: the child numbers from the
\* root list down to it
Path(code) == IF code = 0 THEN <<>> ELSE Append(Path(code \div 3), code % 3)

RECURSIVE ComesBefore(_,_)
\* depth-first pre-order on places: a value before its descendants, and
\* the whole tree of a value before the trees of its later siblings
ComesBefore(p, q) ==
    IF p = <<>> THEN q # <<>>
    ELSE IF q = <<>> THEN FALSE
    ELSE IF Head(p) # Head(q) THEN Head(p) < Head(q)
    ELSE ComesBefore(Tail(p), Tail(q))

\* the list of codes is in depth-first pre-order without repetition
InPreOrder(codes) ==
    \A i, j \in 1..Len(codes) : i < j => ComesBefore(Path(codes[i]), Path(codes[j]))

\* C15: flatten_facet_value lists a value tree in depth-first pre-order,
\* each value once; the list flatten_facet returns has one FacetFlat per
\* value of the facet's trees, in that order, none left out or repeated,
\* each with the facet's parameter name, the value's own key and docCount,
\* and the set of the keys of the value's immediate children.
C15_Flattening ==
    (flattenCall # Idle /\ flattenCall.returned) =>
        LET roots == flattenCall.facet.values
            flat == flattenCall.ret
            codes == [i \in 1..Len(flat) |-> flat[i].n_items]
        IN  /\ Len(flat) = NodeCount(roots)
            /\ {codes[i] : i \in 1..Len(flat)} = NodeCodes(roots)
            /\ InPreOrder(codes)
            /\ \A i \in 1..Len(flat) :
                    /\ flat[i].key = flattenCall.facet.parameterName
                    /\ flat[i].value = ToString(codes[i])
                    /\ flat[i].children =
                            {ToString(k) : k \in {n \in NodeCodes(roots) : n \div 3 = codes[i]}}
            /\ \A r \in 1..Len(roots) :
                    LET one == flatten_facet_value(roots[r])
                    IN  /\ Len(one) = NodeCount(<<roots[r]>>)
                        /\ one[1] = roots[r]
                        /\ {one[i].docCount : i \in 1..Len(one)} = NodeCodes(<<roots[r]>>)
                        /\ InPreOrder([i \in 1..Len(one) |-> one[i].docCount])

C15_Witness ==
    /\ flattenCall # Idle
    /\ flattenCall.returned
    /\ Len(flattenCall.ret) = 6
    /\ [i \in 1..6 |-> flattenCall.ret[i].n_items] = <<1, 4, 13, 5, 2, 7>>
    /\ flattenCall.ret[1].children = {"4", "5"}

\* how often x occurs in the list
Count(ls, x) == Cardinality({i \in 1..Len(ls) : ls[i] = x})

\* same length, same elements, same multiplicities
IsPermutation(a, b) ==
    /\ Len(a) = Len(b)
    /\ \A x \in {a[i] : i \in 1..Len(a)} \cup {b[i] : i \in 1..Len(b)} :
            Count(a, x) = Count(b, x)

\* C16: whatever the list, the radius >= 0 and the probability, the list
\* perturb works on is a permutation of its argument after every
\* iteration, hence so is the list it returns; the same holds of every list
\* the operator perturb gives for these arguments, and the returned list is
\* one of them.
C16_PerturbPermutes ==
    perturbCall # Idle =>
        /\ IsPermutation(perturbCall.ls_local, perturbCall.ls)
        /\ perturbCall.returned =>
                /\ perturbCall.ls_local \in
                        perturb(perturbCall.ls, perturbCall.radius, perturbCall.probPct)
                /\ \A l \in perturb(perturbCall.ls, perturbCall.radius, perturbCall.probPct) :
                        IsPermutation(l, perturbCall.ls)

C16_Witness ==
    /\ perturbCall # Idle
    /\ perturbCall.returned
    /\ perturbCall.ls = <<1, 1, 2>>
    /\ perturbCall.ls_local = <<2, 1, 1>>
    /\ perturbCall.probPct = 30

\* the list l with the elements at the 0-based positions a and b exchanged
Exchanged(l, a, b) ==
    [k \in 1..Len(l) |-> IF k = a + 1 THEN l[b + 1]
                          ELSE IF k = b + 1 THEN l[a + 1]
                          ELSE l[k]]

\* C17: every swap perturb performs is at positions i and j (0-based) that
\* lie inside the list and are at most radius apart, i being the loop
\* index; a step that changes the list exchanges the elements at these two
\* positions and touches no other.
C17_SwapWithinRadius ==
    /\ [](perturbCall # Idle /\ perturbCall.swap # <<>> =>
            LET i == perturbCall.swap[1]
                j == perturbCall.swap[2]
                n == Len(perturbCall.ls)
            IN  /\ 0 <= i /\ i <= n - 1
                /\ 0 <= j /\ j <= n - 1
                /\ i - j <= perturbCall.radius
                /\ j - i <= perturbCall.radius)
    /\ [][perturbCall # Idle /\ perturbCall'.ls_local # perturbCall.ls_local =>
            /\ perturbCall'.swap # <<>>
            /\ perturbCall'.swap[1] = perturbCall.i
            /\ perturbCall'.ls_local =
                    Exchanged(perturbCall.ls_local, perturbCall'.swap[1], perturbCall'.swap[2])]_vars

C17_Witness ==
    /\ perturbCall # Idle
    /\ perturbCall.swap = <<2, 0>>
    /\ perturbCall.radius = 2
    /\ perturbCall.ls = <<1, 2, 3>>
    /\ perturbCall.ls_local = <<3, 2, 1>>

\* the order of the known parameters as the specification lists it
CanonicalOrder ==
    <<"currency", "serviceType", "q", "limit", "offset", "brandName",
      "categoryTree", "usaSnapEligible", "sort", "testVariant", "servicePoint">>

CanonicalSet == {CanonicalOrder[i] : i \in DOMAIN CanonicalOrder}

\* place of the known key k in CanonicalOrder
Rank(k) == CHOOSE i \in DOMAIN CanonicalOrder : CanonicalOrder[i] = k

\* the query part of a returned URL: what follows scheme, host and path
QueryOf(url) == SubSeq(url, 4, Len(url))

\* the keys of a query string in the order they stand in it
EmittedKeys(query) == [n \in 1..((Len(query) + 1) \div 4) |-> query[4 * n - 2]]

\* the values of a query string in the order they stand in it
EmittedValues(query) == [n \in 1..((Len(query) + 1) \div 4) |-> query[4 * n]]

\* C18: in the URL _build_url returns, the known parameters of the map
\* stand in the canonical order, every parameter of the map with a key
\* stands there once with its value, every parameter outside the canonical
\* set stands after all canonical ones, and the empty map gives a URL
\* without query string.
C18_UrlOrdering ==
    (urlCall # Idle /\ urlCall.at = "returned") =>
        LET parameters == urlCall.parameters
            query == QueryOf(urlCall.ret)
            keys == EmittedKeys(query)
            n == Len(keys)
        IN  /\ (parameters = <<>>) => (query = <<>>)
            /\ query # <<>> =>
                    /\ query[1] = "?"
                    /\ Len(query) = (IF n = 0 THEN 1 ELSE 4 * n)
                    /\ \A k \in 1..n : query[4 * k - 1] = "="
                    /\ \A k \in 1..(n - 1) : query[4 * k + 1] = "&"
            /\ {keys[k] : k \in 1..n} = {quote(key) : key \in DOMAIN parameters \ {""}}
            /\ \A a, b \in 1..n : keys[a] = keys[b] => a = b
            /\ \A k \in 1..n : \E key \in DOMAIN parameters :
                    /\ keys[k] = quote(key)
                    /\ EmittedValues(query)[k] = quote(parameters[key])
            /\ \A a, b \in 1..n :
                    /\ (keys[a] \in CanonicalSet /\ keys[b] \in CanonicalSet /\ a < b)
                            => Rank(keys[a]) < Rank(keys[b])
                    /\ (keys[a] \in CanonicalSet /\ keys[b] \notin CanonicalSet)
                            => a < b

C18_Witness ==
    /\ urlCall # Idle
    /\ urlCall.at = "returned"
    /\ DOMAIN urlCall.parameters = {"sort", "a b", "usaSnapEligible"}
    /\ urlCall.ret = <<"https://", "api_hostname", "api_path", "?",
                        "usaSnapEligible", "=", "1", "&", "sort", "=", "a%20b", "&",
                        "a%20b", "=", "1">>

\* C19: the first value of an exp_collision_avoidance generator is 0; its
\* i-th value after that (i >= 1) is k * step_ms / 1000 for an integer k
\* with 0 <= k <= 2^(i-1), the counter c being i - 1 at that yield: c is 0
\* at the second value and one more at each following one; and after every
\* value the generator can give a next one.
C19_BackoffValues ==
    /\ [](backoffGen # Idle =>
            LET i == backoffGen.yields - 1
            IN  /\ backoffGen.yields = 0 => backoffGen.wait = None
                /\ backoffGen.yields = 1 => backoffGen.wait = 0 /\ backoffGen.c = None
                /\ i >= 1 =>
                        /\ backoffGen.c = i - 1
                        /\ \E k \in 0..(2 ^ (i - 1)) :
                                backoffGen.wait = k * backoffGen.step)
    /\ [][backoffGen # Idle /\ backoffGen.yields >= 2 =>
            backoffGen'.c = backoffGen.c + 1]_vars
    /\ [](backoffGen # Idle /\ backoffGen.yields < MaxYields => ENABLED NextBackoff)

C19_Witness ==
    /\ backoffGen # Idle
    /\ backoffGen.yields = 5
    /\ backoffGen.c = 3
    /\ backoffGen.k = 8
    /\ backoffGen.step = StepMicros
    /\ backoffGen.wait = 12000

\* a _crawl_results call runs or has ended that is the first of the crawl
FirstInvocation ==
    /\ pc \in {"page", "invdone", "done", "returned"}
    /\ \/ mode = "direct"
       \/ mode = "dual" /\ phase = "first"
       \/ mode = "facet" /\ idx = 1 /\ phase \in {"first", "single"}

\* the SKUs of the pages the first _crawl_results call has yielded so far:
\* crawl_store yields them all in the direct branch and adds them all to
\* skus_seen in the others
InvocationSkus == IF mode = "direct" THEN delivered ELSE skusSeen

\* C20: against a catalog of constant size T whose items have distinct
\* SKUs, a _crawl_results call never takes its drift branch, the SKUs of
\* the pages it has yielded are at most T, and the SKU set of every page
\* has as many elements as the page has items (no SKU twice in a page).
C20_PageSkuBound ==
    /\ ~drifted
    /\ endIndex # None => endIndex = catalog
    /\ FirstInvocation => Cardinality(InvocationSkus) <= catalog
    /\ pc = "page" => Cardinality(PageSkus(DataInFlight)) = Len(DataInFlight)

C20_Witness ==
    /\ mode = "direct"
    /\ pc = "done"
    /\ catalog = MaxTotal
    /\ maxPageItems > 0
    /\ Cardinality(delivered) = catalog

\* C21: a page whose totalCount differs from the known end_index is not
\* yielded: the step that takes the drift branch leaves the SKUs handed to
\* the caller as they were.
C21_DriftPageNotYielded ==
    [][DriftStep => delivered' = delivered]_vars

\* C22: against a catalog of constant size T <= max_page_items, the
\* requests of a _crawl_results call are at the offsets 0, page size, twice
\* the page size, ... in this order, each below T (the one request at 0
\* when T = 0), and the call ends only when the next multiple of the page
\* size is T or more: every catalog position below T is in a requested page.
C22_DirectCoverage ==
    /\ [](catalog # None /\ catalog <= maxPageItems =>
            /\ pc = "page" =>
                    /\ paramsThisPage["offset"] = ToString(currentIndex)
                    /\ paramsThisPage["limit"] = ToString(itemsPerPage)
                    /\ currentIndex % itemsPerPage = 0
                    /\ currentIndex < catalog \/ currentIndex = 0
            /\ pc = "invdone" =>
                    /\ currentIndex % itemsPerPage = 0
                    /\ currentIndex >= catalog
                    /\ currentIndex >= itemsPerPage
                    /\ currentIndex - itemsPerPage < catalog \/ currentIndex = itemsPerPage)
    /\ [][catalog # None /\ catalog <= maxPageItems /\ pc = "page"
            /\ pc' \in {"page", "invdone"} =>
                currentIndex' = currentIndex + itemsPerPage]_vars
    /\ [][catalog # None /\ catalog <= maxPageItems /\ pc # "page" /\ pc' = "page" =>
                currentIndex' = 0]_vars

C22_Witness ==
    /\ mode = "direct"
    /\ pc = "done"
    /\ catalog = 3
    /\ maxPageItems = 3
    /\ itemsPerPage = 2
    /\ currentIndex = 4
    /\ delivered = {1, 2, 3}

\* C25: against a catalog of constant size (no drift), whatever the page
\* size, max_page_items and the size, a _crawl_results call requests no
\* offset twice; the offsets of a call never decrease, so that a repeated
\* offset is one requested again right after it was answered.
C25_NoRepeatedOffset ==
    [][catalog # None /\ pc = "page" /\ pc' = "page" =>
            /\ ParseInt(paramsThisPage'["offset"]) >= ParseInt(paramsThisPage["offset"])
            /\ paramsThisPage'["offset"] # paramsThisPage["offset"]]_vars

\* C23: every _get call starts with failure counter c = 0 whatever the
\* number of retried failures of the call before it; while a call runs c
\* is the number of its own retried failures, so that the range its next
\* wait is drawn from depends on these alone.
C23_RetryStateDoesNotLeak ==
    /\ [](getPc = "running" => c = tries)
    /\ [][getPc = "returned" /\ getPc' = "running" =>
            c' = 0 /\ tries' = 0 /\ earlierFailures' = c]_vars
    /\ [][getPc = "running" /\ getPc' = "running" =>
            c' = c + 1 /\ earlierFailures' = earlierFailures]_vars

C23_Witness ==
    /\ getPc = "running"
    /\ earlierFailures = 3
    /\ tries = 1
    /\ c = 1

Finished == pc \in {"done", "returned", "raised"}

\* the longest filter list a facet answer gives, the null facet included
MaxFilters ==
    LET lens == {Len(FlattenForest(f)) + 1 : f \in FacetForests}
    IN  CHOOSE n \in lens : \A m \in lens : m <= n

\* number of steps crawl_store can still take, at most: per _crawl_results
\* call its page requests and its end, per filter two calls and the step to
\* the next filter, and the probe and facet requests before them
CrawlMeasure ==
    LET perCall == 2 * (maxPageItems + itemsPerPage + 1) + 3
        perFilter == 2 * perCall + 2
        thisCall == (IF pc = "page" THEN PagingMeasure + 1 ELSE 0) + 1
        callAfter == IF phase = "first" THEN perCall ELSE 0
    IN  CASE pc = "probe" -> (MaxFilters + 1) * perFilter + 3
          [] pc = "facets" -> (MaxFilters + 1) * perFilter + 2
          [] pc = "filter" -> (Len(filters) - idx + 1) * perFilter + 1
          [] pc \in {"page", "invdone"} ->
                (IF mode = "facet" THEN (Len(filters) - idx) * perFilter + 1 ELSE 0)
                    + callAfter + thisCall
          [] OTHER -> 0

\* C26: whatever n_products, the facets and the answers of the upstream,
\* crawl_store ends when every request returns: CrawlMeasure is never
\* negative and every step makes it smaller, and while crawl_store has not
\* ended a step is possible; it ends by completing its branch, by the
\* early return with len(skus_seen) >= n_products, or by an exception of
\* _get or of a response check. The probe is the first request and is made
\* once: it is in flight at the start only, and no page or facet request
\* is made before it has answered.
C26_CrawlTerminates ==
    /\ [](CrawlMeasure >= 0)
    /\ [][CrawlMeasure' < CrawlMeasure]_vars
    /\ [](~Finished => ENABLED Next)
    /\ [](Finished => CrawlMeasure = 0)
    /\ [](pc = "returned" =>
            mode \in {"dual", "facet"} /\ Cardinality(skusSeen) >= nProducts)
    /\ [](pc = "raised" => raised \in {FailedButRetrying, ScraperNeedsHumanIntervention})
    /\ [](pc = "done" => raised = "" /\ mode \in {"direct", "dual", "facet"})
    /\ [](pc = "probe" =>
            /\ nProducts = None /\ mode = "none"
            /\ paramsThisPage = NoParams /\ delivered = {} /\ skusSeen = {})
    /\ [](pc \in {"facets", "filter", "page", "invdone"} => nProducts # None)
    /\ [][pc' # "probe" /\ (nProducts # None => nProducts' = nProducts)]_vars

\* C26 as a liveness property of FairSpec
C26_EventuallyFinished == <>Finished

C26_Witness ==
    /\ pc = "done"
    /\ mode = "facet"
    /\ Len(filters) = 3
    /\ idx = 4
    /\ delivered # {}
    /\ drifted


====
